---- MODULE Spec2Model ----
(***************************************************************************)
(* DeviceHub dashboard: the four server variants of the repository.        *)
(*   src/unnamed/part_001   aggregation variant: GET /data, geo cache      *)
(*   src/server-dashboard.js, src/unnamed/part_000, src/unnamed/part_002   *)
(*                          proxy variants: GET /stats                     *)
(* JavaScript strings are tuples of one-character strings, so that the     *)
(* regular expression, encodeURIComponent and Number() are computed.       *)
(* Date.now() is counted in half weeks.                                    *)
(***************************************************************************)
EXTENDS Integers, Sequences, FiniteSets, TLC

VARIABLES
  geoCache,   \* part_001: const geoCache = new Map(), ip -> entry
  now,        \* Date.now()
  calls,      \* the lookupGeo calls in progress, one per caller
  lastGeo,    \* history: ip -> the result of the last lookup that stored an entry
  admin,      \* part_001: ADMIN_TOKEN is set
  req,        \* part_001: the GET /data request in progress
  variant,    \* the server file that was started
  apiEnv,     \* process.env.API_BASE, empty when unset
  tokenEnv,   \* process.env.STATS_TOKEN, empty when unset
  proxy       \* the browser request in progress at a started server

vars == <<geoCache, now, calls, lastGeo, admin, req, variant, apiEnv, tokenEnv, proxy>>

\* ------------------------------------------------------------------------
\* JavaScript values
\* ------------------------------------------------------------------------
Undef == [t |-> "undefined"]
Null == [t |-> "null"]
NaN == [t |-> "NaN"]
Str(s) == [t |-> "string", s |-> s]
Num(n) == [t |-> "number", n |-> n]
Bool(b) == [t |-> "boolean", b |-> b]
Obj(f) == [t |-> "object", o |-> f]
Arr(a) == [t |-> "array", a |-> a]

Empty == Str(<< >>)

\* ToBoolean
Truthy(v) ==
  CASE v.t = "undefined" -> FALSE
    [] v.t = "null" -> FALSE
    [] v.t = "NaN" -> FALSE
    [] v.t = "string" -> v.s # << >>
    [] v.t = "number" -> v.n # 0
    [] v.t = "boolean" -> v.b
    [] OTHER -> TRUE

\* a || b
OrElse(a, b) == IF Truthy(a) THEN a ELSE b

\* a ?? b
Coalesce(a, b) == IF a.t \in {"undefined", "null"} THEN b ELSE a

\* o.k throws a TypeError when o is null or undefined
Throws(o) == o.t \in {"undefined", "null"}

\* o.k for an o that is not null or undefined
Prop(o, k) == IF o.t = "object" /\ k \in DOMAIN o.o THEN o.o[k] ELSE Undef

\* o?.k
OptProp(o, k) == IF Throws(o) THEN Undef ELSE Prop(o, k)

Digits == {"0", "1", "2", "3", "4", "5", "6", "7", "8", "9"}

DigitVal(c) ==
  CASE c = "0" -> 0 [] c = "1" -> 1 [] c = "2" -> 2 [] c = "3" -> 3
    [] c = "4" -> 4 [] c = "5" -> 5 [] c = "6" -> 6 [] c = "7" -> 7
    [] c = "8" -> 8 [] c = "9" -> 9

RECURSIVE DecVal(_)
DecVal(s) == IF s = << >> THEN 0
             ELSE 10 * DecVal(SubSeq(s, 1, Len(s) - 1)) + DigitVal(s[Len(s)])

\* Number(v), for the strings of decimal digits and the other values here
ToNumber(v) ==
  CASE v.t = "number" -> v
    [] v.t = "string" ->
         IF \A i \in 1..Len(v.s) : v.s[i] \in Digits THEN Num(DecVal(v.s)) ELSE NaN
    [] v.t = "boolean" -> Num(IF v.b THEN 1 ELSE 0)
    [] v.t = "null" -> Num(0)
    [] OTHER -> NaN

\* ------------------------------------------------------------------------
\* part_001: the geo cache and lookupGeo
\* ------------------------------------------------------------------------

\* /^(?:\d{1,3}\.){3}\d{1,3}$/ : k groups of one to three digits and a dot,
\* then one to three digits up to the end of the input
RECURSIVE Ipv4From(_, _, _)
Ipv4From(s, i, k) ==
  \E n \in 1..3 :
    /\ i + n - 1 <= Len(s)
    /\ \A m \in i..(i + n - 1) : s[m] \in Digits
    /\ IF k = 0 THEN i + n - 1 = Len(s)
       ELSE /\ i + n <= Len(s)
            /\ s[i + n] = "."
            /\ Ipv4From(s, i + n + 1, k - 1)

\* the test without the bound on the digits of the first group: (?:\d+\.)
ipv4Loose(s) ==
  \E n \in 1..Len(s) :
    /\ \A m \in 1..n : s[m] \in Digits
    /\ n + 1 <= Len(s)
    /\ s[n + 1] = "."
    /\ Ipv4From(s, n + 2, 2)

\* ipv4.test(ip) for a string ip
ipv4(s) == Ipv4From(s, 1, 3)

\* Date.now() is counted in half weeks (302 400 000 ms), so that
\* 7 * 24 * 3600 * 1000 ms is 2
TTL == 2

\* the last instant of the clock
MaxTime == 3

\* concurrent callers of lookupGeo
MaxCalls == 2

\* geoCache.get(ip) found an entry and Date.now() - cached.ts < 7 days
Fresh(cache, ip, t) == ip \in DOMAIN cache /\ t - cache[ip].ts < TTL

\* a hit that returns the country as the city
HitValueSwapped(e) ==
  Obj([city |-> e.country, country |-> e.country,
       latitude |-> e.latitude, longitude |-> e.longitude])

\* the object returned on a cache hit
HitValue(e) ==
  Obj([city |-> e.city, country |-> e.country,
       latitude |-> e.latitude, longitude |-> e.longitude])

\* typeof x === "number" ? x : (x ? Number(x) : null)
Coord(x) == IF x.t \in {"number", "NaN"} THEN x
            ELSE IF Truthy(x) THEN ToNumber(x) ELSE Null

\* const geo = { city: ..., country: ..., latitude: ..., longitude: ... }
\* for a parsed body j that is not null
GeoOf(j) ==
  [city |-> OrElse(Prop(j, "city"), Empty),
   country |-> OrElse(Prop(j, "country_name"), OrElse(Prop(j, "country"), Empty)),
   latitude |-> Coord(Prop(j, "latitude")),
   longitude |-> Coord(Prop(j, "longitude"))]

\* a set that keeps an entry that is already there: the first write wins
CacheSetKeepFirst(cache, ip, geo, t) ==
  [k \in DOMAIN cache \cup {ip} |->
     IF k \in DOMAIN cache THEN cache[k]
     ELSE [city |-> geo.city, country |-> geo.country,
           latitude |-> geo.latitude, longitude |-> geo.longitude, ts |-> t]]

\* geoCache.set(ip, { ...geo, ts: Date.now() })
CacheSet(cache, ip, geo, t) ==
  [k \in DOMAIN cache \cup {ip} |->
     IF k = ip
     THEN [city |-> geo.city, country |-> geo.country,
           latitude |-> geo.latitude, longitude |-> geo.longitude, ts |-> t]
     ELSE cache[k]]

\* The outcomes of fetch(`https://ipapi.co/${ip}/json/`) and r.json():
\*   throw    fetch rejects (network error, timeout)
\*   status   r.ok is false
\*   badjson  r.json() rejects
\*   json     r.json() resolves to the value j
GeoFailed(o) == o.kind \in {"throw", "status", "badjson"} \/ (o.kind = "json" /\ Throws(o.j))

\* what lookupGeo returns once the fetch has settled with outcome o
GeoReturn(o) == IF GeoFailed(o) THEN Null ELSE Obj(GeoOf(o.j))

\* a store that caches the negative result of a failed lookup
GeoStoreNegative(cache, ip, o, t) ==
  IF GeoFailed(o)
  THEN CacheSet(cache, ip,
         [city |-> Empty, country |-> Empty, latitude |-> Null, longitude |-> Null], t)
  ELSE CacheSet(cache, ip, GeoOf(o.j), t)

\* the cache once the fetch for ip has settled with outcome o at time t
GeoStore(cache, ip, o, t) ==
  IF GeoFailed(o) THEN cache ELSE CacheSet(cache, ip, GeoOf(o.j), t)

\* ------------------------------------------------------------------------
\* The inputs of the model
\* ------------------------------------------------------------------------
\* values of API_BASE: a URL, a URL with a trailing slash, a host without scheme
UrlOk == <<"h", "t", "t", "p", ":", "/", "/", "m">>
UrlSlash == <<"h", "t", "t", "p", ":", "/", "/", "m", "/">>
UrlNoScheme == <<"m">>

\* values of STATS_TOKEN: unreserved characters only, and one with a space
TokenPlain == <<"s", "3">>
TokenSpace == <<"s", " ", "3">>

IpA == <<"1", ".", "2", ".", "3", ".", "4">>
IpB == <<"9", "9", "9", ".", "0", ".", "0", ".", "9">>
IpV6 == <<":", ":", "1">>
IpHost == <<"h", "o", "s", "t">>
IpLong == <<"1", "2", "3", "4", ".", "1", ".", "1", ".", "1">>
IpShort == <<"1", ".", "2", ".", "3">>

Ipv4Ips == {IpA, IpB}
OtherIps == {IpV6, IpHost, IpLong, IpShort, << >>}
LookupIps == Ipv4Ips \cup OtherIps

Rome == <<"R", "o", "m", "e">>
Italy == <<"I", "t", "a", "l", "y">>
Oslo == <<"O", "s", "l", "o">>
Lima == <<"L", "i", "m", "a">>
Peru == <<"P", "e", "r", "u">>

BodyRome ==
  Obj([city |-> Str(Rome), country_name |-> Str(Italy), country |-> Str(<<"I", "T">>),
       latitude |-> Num(41), longitude |-> Num(12)])
BodyOslo ==
  Obj([city |-> Str(Oslo), country |-> Str(<<"N", "O">>),
       latitude |-> Str(<<"5", "9">>), longitude |-> Num(0)])
BodyError == Obj([error |-> Bool(TRUE)])
BodyLima ==
  Obj([city |-> Str(Lima), country_name |-> Str(Peru),
       latitude |-> Str(<<"x">>), longitude |-> Str(<< >>)])

\* the bodies the geolocation provider may answer with for ip
GeoBodies(ip) == IF ip = IpA THEN {BodyRome, BodyOslo, BodyError} ELSE {BodyLima}

\* the outcomes of one external geolocation call for ip: every failure and
\* every body for IpA, one failure and one body for IpB
GeoOutcomes(ip) ==
  (IF ip = IpA
   THEN {[kind |-> "throw"], [kind |-> "status"], [kind |-> "badjson"],
         [kind |-> "json", j |-> Null]}
   ELSE {[kind |-> "status"]})
  \cup {[kind |-> "json", j |-> b] : b \in GeoBodies(ip)}

AllGeoOutcomes == UNION {GeoOutcomes(ip) : ip \in Ipv4Ips}

\* ------------------------------------------------------------------------
\* lookupGeo called directly, by MaxCalls concurrent callers
\* ------------------------------------------------------------------------
Callers == 1..MaxCalls

Idle == [pc |-> "idle"]

\* a call that returned without a fetch
NoFetch == [kind |-> "none"]

\* lookupGeo(ip) up to its first await: the test, the cache, the fetch issued
lookupGeoBegin(c, ip) ==
  /\ calls[c].pc = "idle"
  /\ calls' = [calls EXCEPT ![c] =
       IF ~ipv4(ip)
       THEN [pc |-> "done", ip |-> ip, val |-> Null, ext |-> 0, out |-> NoFetch]
       ELSE IF Fresh(geoCache, ip, now)
       THEN [pc |-> "done", ip |-> ip, val |-> HitValue(geoCache[ip]), ext |-> 0,
             out |-> NoFetch]
       ELSE [pc |-> "fetching", ip |-> ip, ext |-> 1]]
  /\ UNCHANGED <<geoCache, now, lastGeo, admin, req, variant, apiEnv, tokenEnv, proxy>>

\* the fetch of call c settles with outcome o: lines 52-65
lookupGeoSettle(c, o) ==
  /\ calls[c].pc = "fetching"
  /\ o \in GeoOutcomes(calls[c].ip)
  /\ calls' = [calls EXCEPT ![c] =
       [pc |-> "done", ip |-> calls[c].ip, val |-> GeoReturn(o), ext |-> calls[c].ext,
        out |-> o]]
  /\ geoCache' = GeoStore(geoCache, calls[c].ip, o, now)
  /\ lastGeo' = IF GeoFailed(o) THEN lastGeo
                ELSE [k \in DOMAIN lastGeo \cup {calls[c].ip} |->
                        IF k = calls[c].ip THEN GeoReturn(o) ELSE lastGeo[k]]
  /\ UNCHANGED <<now, admin, req, variant, apiEnv, tokenEnv, proxy>>

\* the caller takes the result
Collect(c) ==
  /\ calls[c].pc = "done"
  /\ calls' = [calls EXCEPT ![c] = Idle]
  /\ UNCHANGED <<geoCache, now, lastGeo, admin, req, variant, apiEnv, tokenEnv, proxy>>

\* time passes
Tick ==
  /\ now < MaxTime
  /\ now' = now + 1
  /\ UNCHANGED <<geoCache, calls, lastGeo, admin, req, variant, apiEnv, tokenEnv, proxy>>

InitGeo ==
  /\ geoCache = << >>
  /\ now = 0
  /\ calls = [c \in Callers |-> Idle]
  /\ lastGeo = << >>
  /\ admin = TRUE
  /\ req = Idle
  /\ variant = "part_001"
  /\ apiEnv = UrlOk
  /\ tokenEnv = TokenPlain
  /\ proxy = Idle

NextGeo ==
  \/ \E c \in Callers, ip \in LookupIps : lookupGeoBegin(c, ip)
  \/ \E c \in Callers, o \in AllGeoOutcomes : lookupGeoSettle(c, o)
  \/ \E c \in Callers : Collect(c)
  \/ Tick

SpecGeo == InitGeo /\ [][NextGeo]_vars

\* caller c calls lookupGeo in this step
Begins(c) == calls[c].pc = "idle" /\ calls'[c].pc # "idle"

\* the fetch of caller c settles in this step
Settles(c) == calls[c].pc = "fetching" /\ calls'[c].pc = "done"

\* C5: a lookupGeo(ip) call made while the cache holds an entry for ip whose
\* age is below 7 days returns at once the city, country, latitude and
\* longitude that the successful lookup which stored the entry returned, and
\* issues no external call; a call for an IPv4-shaped ip with no entry issues
\* exactly one external call, and settling issues no further one.
C5_CacheHit ==
  [][\A c \in Callers :
       /\ Begins(c) =>
            LET ip == calls'[c].ip IN
              /\ (ip \in Ipv4Ips /\ ip \in DOMAIN geoCache /\ now - geoCache[ip].ts < TTL)
                   => /\ calls'[c].pc = "done"
                      /\ calls'[c].val = lastGeo[ip]
                      /\ calls'[c].ext = 0
              /\ (ip \in Ipv4Ips /\ ip \notin DOMAIN geoCache)
                   => calls'[c].pc = "fetching" /\ calls'[c].ext = 1
       /\ Settles(c) => calls'[c].ext = 1]_vars

\* a hit on an entry of age 1 that was stored from the body with a string
\* latitude and no country_name, while another caller is still fetching
C5_Witness ==
  \E c \in Callers, d \in Callers :
    /\ calls[c].pc = "done" /\ calls[c].out = NoFetch /\ calls[c].ip = IpA
    /\ calls[c].val = Obj(GeoOf(BodyOslo))
    /\ now - geoCache[IpA].ts = 1
    /\ calls[d].pc = "fetching"

\* the fetch outcomes that are failures of the lookup: a rejected fetch, a
\* non-success status, a body that is not JSON, a JSON body that is null
FailedOutcome(o) ==
  o.kind \in {"throw", "status", "badjson"} \/ o = [kind |-> "json", j |-> Null]

\* C6: when the external lookup fails, lookupGeo returns null and the geo
\* cache stays exactly as it was, and a lookupGeo for an IPv4-shaped ip that
\* has no entry younger than 7 days issues an external call.
C6_FailureLeavesCache ==
  [][\A c \in Callers :
       /\ (Settles(c) /\ FailedOutcome(calls'[c].out))
            => calls'[c].val = Null /\ geoCache' = geoCache
       /\ (Begins(c) /\ calls'[c].ip \in Ipv4Ips
              /\ ~(calls'[c].ip \in DOMAIN geoCache
                    /\ now - geoCache[calls'[c].ip].ts < TTL))
            => calls'[c].pc = "fetching"]_vars

\* a lookup failed on a non-success status while the cache holds a stale
\* entry for its ip
C6_Witness ==
  \E c \in Callers :
    /\ calls[c].pc = "done" /\ calls[c].out = [kind |-> "status"]
    /\ calls[c].ip \in DOMAIN geoCache
    /\ now - geoCache[calls[c].ip].ts >= TTL

\* C7: lookupGeo of an IPv6 address, a hostname, the empty string, a string
\* with a four-digit group or with three groups returns null at once, issues
\* no external call and leaves the geo cache unchanged.
C7_NonIpv4 ==
  [][\A c \in Callers :
       (Begins(c) /\ calls'[c].ip \in OtherIps)
         => /\ calls'[c].pc = "done"
            /\ calls'[c].val = Null
            /\ calls'[c].ext = 0
            /\ geoCache' = geoCache]_vars

\* lookupGeo("::1") returned while the cache holds an entry
C7_Witness ==
  \E c \in Callers :
    /\ calls[c].pc = "done" /\ calls[c].ip = IpV6 /\ calls[c].val = Null
    /\ geoCache # << >>

\* ------------------------------------------------------------------------
\* part_001: GET /data
\* ------------------------------------------------------------------------

\* .slice(0, 10)
GeoLimit == 10

\* the promise of fetchStats() once its fetch settled with outcome o:
\* rejected on a network error, a non-success status or a body that is not JSON
fetchStats(o) ==
  IF o.kind = "json" THEN [ok |-> TRUE, v |-> o.j] ELSE [ok |-> FALSE]

\* the promise of fetchDevices(): [] without a call when ADMIN_TOKEN is empty,
\* rejected on a failed fetch and on j.devices of a null body
fetchDevices(o) ==
  IF o.kind = "nocall" THEN [ok |-> TRUE, v |-> << >>]
  ELSE IF o.kind # "json" THEN [ok |-> FALSE]
  ELSE IF Throws(o.j) THEN [ok |-> FALSE]
  ELSE IF Prop(o.j, "devices").t = "array" THEN [ok |-> TRUE, v |-> Prop(o.j, "devices").a]
  ELSE [ok |-> TRUE, v |-> << >>]

\* fetchStats().catch(() => null)
StatsOrNull(o) == IF fetchStats(o).ok THEN fetchStats(o).v ELSE Null

\* fetchDevices().catch(() => [])
DevicesOrEmpty(o) == IF fetchDevices(o).ok THEN fetchDevices(o).v ELSE << >>

\* d => d?.ip && ipv4.test(d.ip), for an ip that is a string when it is truthy
IsGeoTarget(d) ==
  LET ip == OptProp(d, "ip") IN Truthy(ip) /\ ip.t = "string" /\ ipv4(ip.s)

\* the first ten entries, then the filter: devices.slice(0, 10).filter(...)
geoTargetsSliceFirst(devices) ==
  {i \in 1..Len(devices) : i <= GeoLimit /\ IsGeoTarget(devices[i])}

\* devices.filter(...).slice(0, 10), as the set of the positions selected
geoTargets(devices) ==
  LET F == {i \in 1..Len(devices) : IsGeoTarget(devices[i])}
  IN {i \in F : Cardinality({j \in F : j < i}) < GeoLimit}

\* d.k = v
SetProp(d, k, v) ==
  Obj([f \in DOMAIN d.o \cup {k} |-> IF f = k THEN v ELSE d.o[f]])

\* a view that also copies the ip
PublicDeviceWithIp(d) ==
  [id |-> OrElse(Prop(d, "id"), Empty),
   ip |-> OrElse(Prop(d, "ip"), Empty),
   country |-> OrElse(OptProp(Prop(d, "geo"), "country"), Empty),
   city |-> OrElse(OptProp(Prop(d, "geo"), "city"), Empty),
   os |-> OrElse(Prop(d, "os"), Empty),
   username |-> OrElse(Prop(d, "username"), Empty),
   hostname |-> OrElse(Prop(d, "hostname"), Empty),
   lastSeen |-> OrElse(Prop(d, "lastSeen"), Num(0)),
   online |-> Bool(Truthy(Prop(d, "online")))]

\* d => ({ id: d.id || "", country: d.geo?.country || "", ... }) for a d that
\* is not null or undefined
PublicDevice(d) ==
  [id |-> OrElse(Prop(d, "id"), Empty),
   country |-> OrElse(OptProp(Prop(d, "geo"), "country"), Empty),
   city |-> OrElse(OptProp(Prop(d, "geo"), "city"), Empty),
   os |-> OrElse(Prop(d, "os"), Empty),
   username |-> OrElse(Prop(d, "username"), Empty),
   hostname |-> OrElse(Prop(d, "hostname"), Empty),
   lastSeen |-> OrElse(Prop(d, "lastSeen"), Num(0)),
   online |-> Bool(Truthy(Prop(d, "online")))]

\* stats?.installed || null
CountOrNull(stats, k) == OrElse(OptProp(stats, k), Null)

\* stats?.installed ?? null
Count(stats, k) == Coalesce(OptProp(stats, k), Null)

\* lines 110-133: the response; devices.map throws on an entry that is null
\* or undefined, and the catch answers 500
DataResponse(stats, devices, t) ==
  IF \E i \in 1..Len(devices) : Throws(devices[i])
  THEN [status |-> 500, body |-> [error |-> "unavailable"]]
  ELSE [status |-> 200,
        body |-> [ts |-> Num(t),
                  installed |-> Count(stats, "installed"),
                  active |-> Count(stats, "active"),
                  offline |-> Count(stats, "offline"),
                  deleted |-> Count(stats, "deleted"),
                  devices |-> [i \in 1..Len(devices) |-> PublicDevice(devices[i])]]]

\* the device records of the upstream
DevA ==
  Obj([id |-> Str(<<"a">>), ip |-> Str(IpA), os |-> Str(<<"w">>),
       username |-> Str(<<"u">>), hostname |-> Str(<<"h">>),
       lastSeen |-> Num(5), online |-> Bool(TRUE)])
DevNoIp == Obj([id |-> Str(<<"n">>), os |-> Str(<<"w">>), online |-> Num(0)])
DevOwnGeo ==
  Obj([id |-> Str(<<"g">>), geo |-> Obj([country |-> Str(Peru), city |-> Str(Lima)])])
DevV6 == Obj([id |-> Str(<<"v">>), ip |-> Str(IpV6)])
DevB == Obj([id |-> Str(<<"b">>), ip |-> Str(IpB)])

\* eleven devices with an IPv4-shaped ip behind two without
ListBig == <<DevNoIp, DevV6>> \o [i \in 1..(GeoLimit + 1) |-> DevB]

DeviceLists ==
  {<< >>,
   <<DevA>>,
   <<DevA, DevNoIp, DevA>>,
   <<DevV6, DevOwnGeo>>,
   <<DevA, Null>>,
   <<Num(7), Str(<<"s">>), Obj(<< >>)>>,
   ListBig}

StatsFull ==
  Obj([installed |-> Num(100), active |-> Num(40), offline |-> Num(55), deleted |-> Num(5)])
StatsZero == Obj([installed |-> Num(0), active |-> Num(0)])

\* the outcomes of the fetch of fetchStats and of its r.json()
StatsOutcomes ==
  {[kind |-> "throw"], [kind |-> "status"],
   [kind |-> "json", j |-> StatsFull], [kind |-> "json", j |-> StatsZero]}

\* the outcomes of the fetch of fetchDevices and of its r.json()
DeviceOutcomes ==
  {[kind |-> "throw"], [kind |-> "status"], [kind |-> "json", j |-> Null],
   [kind |-> "json", j |-> Obj([devices |-> Str(<<"x">>)])]}
  \cup {[kind |-> "json", j |-> Obj([devices |-> Arr(l)])] : l \in DeviceLists}

\* the outcomes of the geolocation calls of a /data request: every outcome
\* for IpA; the ten concurrent calls for the devices of ListBig all succeed
DataGeoOutcomes(ip) ==
  IF ip = IpB THEN {[kind |-> "json", j |-> BodyLima]} ELSE GeoOutcomes(ip)

AllDataGeoOutcomes == UNION {DataGeoOutcomes(ip) : ip \in Ipv4Ips}

\* the ip of device i, a target
TargetIp(devices, i) == Prop(devices[i], "ip").s

\* app.get("/data"): the request arrives and both fetches are issued
DataRequest ==
  /\ req.pc = "idle"
  /\ req' = [pc |-> "fetching"]
  /\ UNCHANGED <<geoCache, now, calls, lastGeo, admin, variant, apiEnv, tokenEnv, proxy>>

\* lines 93-107 up to the await of the lookups: both fetches have settled,
\* with outcomes so and dv; every target runs lookupGeo up to its fetch
DataFetched(so, dv) ==
  /\ req.pc = "fetching"
  /\ so \in StatsOutcomes
  /\ IF admin THEN dv \in DeviceOutcomes ELSE dv = [kind |-> "nocall"]
  /\ LET devices == DevicesOrEmpty(dv)
         targets == geoTargets(devices)
         hits == {i \in targets : Fresh(geoCache, TargetIp(devices, i), now)}
     IN req' = [pc |-> "geo", so |-> so, dv |-> dv,
                stats |-> StatsOrNull(so),
                devices |-> [i \in 1..Len(devices) |->
                   IF i \in hits
                   THEN SetProp(devices[i], "geo",
                          OrElse(HitValue(geoCache[TargetIp(devices, i)]), Null))
                   ELSE devices[i]],
                targets |-> targets,
                pending |-> targets \ hits,
                issued |-> Cardinality(targets \ hits)]
  /\ UNCHANGED <<geoCache, now, calls, lastGeo, admin, variant, apiEnv, tokenEnv, proxy>>

\* lines 52-65 and 106: the fetch for a target settles with outcome o
DataGeoSettle(o) ==
  /\ req.pc = "geo"
  /\ \E i \in req.pending :
     LET ip == TargetIp(req.devices, i) IN
       /\ o \in DataGeoOutcomes(ip)
       /\ geoCache' = GeoStore(geoCache, ip, o, now)
       /\ lastGeo' = IF GeoFailed(o) THEN lastGeo
                     ELSE [k \in DOMAIN lastGeo \cup {ip} |->
                             IF k = ip THEN GeoReturn(o) ELSE lastGeo[k]]
       /\ req' = [req EXCEPT
            !.devices[i] = SetProp(req.devices[i], "geo", OrElse(GeoReturn(o), Null)),
            !.pending = req.pending \ {i}]
  /\ UNCHANGED <<now, calls, admin, variant, apiEnv, tokenEnv, proxy>>

\* lines 110-133: every lookup has returned; the response is sent
DataRespond ==
  /\ req.pc = "geo"
  /\ req.pending = {}
  /\ req' = [pc |-> "done", so |-> req.so, dv |-> req.dv, targets |-> req.targets,
             issued |-> req.issued,
             res |-> DataResponse(req.stats, req.devices, now)]
  /\ UNCHANGED <<geoCache, now, calls, lastGeo, admin, variant, apiEnv, tokenEnv, proxy>>

\* the browser has the response
DataDone ==
  /\ req.pc = "done"
  /\ req' = Idle
  /\ UNCHANGED <<geoCache, now, calls, lastGeo, admin, variant, apiEnv, tokenEnv, proxy>>

Init ==
  /\ geoCache = << >>
  /\ now = 0
  /\ calls = [c \in Callers |-> Idle]
  /\ lastGeo = << >>
  /\ admin \in BOOLEAN
  /\ req = Idle
  /\ variant = "part_001"
  /\ apiEnv = UrlOk
  /\ tokenEnv = TokenPlain
  /\ proxy = Idle

Next ==
  \/ DataRequest
  \/ \E so \in StatsOutcomes, dv \in DeviceOutcomes \cup {[kind |-> "nocall"]} :
       DataFetched(so, dv)
  \/ \E o \in AllDataGeoOutcomes : DataGeoSettle(o)
  \/ DataRespond
  \/ DataDone
  \/ Tick

Spec == Init /\ [][Next]_vars

\* the device list the upstream returned to the request
Upstream == DevicesOrEmpty(req.dv)

\* device d carries an ip that is one of the IPv4-shaped strings
HasIpv4(d) == d.t = "object" /\ "ip" \in DOMAIN d.o /\ d.o.ip \in {Str(ip) : ip \in Ipv4Ips}

\* the positions of the first ten devices of l with an IPv4-shaped ip
FirstTen(l) ==
  {i \in 1..Len(l) :
     HasIpv4(l[i]) /\ Cardinality({j \in 1..(i - 1) : HasIpv4(l[j])}) < 10}

\* the ip values of the devices of l
IpValues(l) == {l[i].o.ip : i \in {j \in 1..Len(l) : l[j].t = "object" /\ "ip" \in DOMAIN l[j].o}}

ViewFields == {"id", "country", "city", "os", "username", "hostname", "lastSeen", "online"}

\* C1: no /data response has a field named ip, every device view has exactly
\* the fields id, country, city, os, username, hostname, lastSeen and online,
\* and no value of the response is the ip of a device of the upstream list.
C1_NoIp ==
  req.pc = "done" =>
    /\ "ip" \notin DOMAIN req.res.body
    /\ \A k \in DOMAIN req.res.body \ {"devices", "error"} :
         req.res.body[k] \notin IpValues(Upstream)
    /\ req.res.status = 200 =>
         \A i \in DOMAIN req.res.body.devices :
           /\ DOMAIN req.res.body.devices[i] = ViewFields
           /\ \A f \in ViewFields : req.res.body.devices[i][f] \notin IpValues(Upstream)

\* a response whose first device had an IPv4 ip, resolved to Italy
C1_Witness ==
  /\ req.pc = "done" /\ req.res.status = 200
  /\ Len(req.res.body.devices) = 3
  /\ Str(IpA) \in IpValues(Upstream)
  /\ req.res.body.devices[1].country = Str(Italy)

\* C8: one /data request issues at most 10 external geolocation calls, and
\* its lookup targets are the first 10 devices, in list order, whose ip is
\* IPv4-shaped; only targets are looked up.
C8_TenLookups ==
  req.pc \in {"geo", "done"} =>
    /\ req.issued <= 10
    /\ req.targets = FirstTen(Upstream)
    /\ req.pc = "geo" => req.pending \subseteq req.targets

\* the list of thirteen devices, eleven of them with an IPv4 ip, answered
\* after ten external calls
C8_Witness ==
  /\ req.pc = "done" /\ req.res.status = 200
  /\ Len(Upstream) = 13
  /\ req.issued = 10
  /\ req.res.body.devices[12].country = Str(Peru)

\* C3: GET /data always answers 200 with the payload
\* {ts, installed, active, offline, deleted, devices}.
C3_NeverFails ==
  req.pc = "done" =>
    /\ req.res.status = 200
    /\ DOMAIN req.res.body = {"ts", "installed", "active", "offline", "deleted", "devices"}

Counts == {"installed", "active", "offline", "deleted"}

\* C4: when the device-list fetch fails and the stats fetch succeeds the
\* response is 200 with devices = [] and the upstream's counts unchanged; when
\* the stats fetch fails and the device-list fetch succeeds the response is
\* 200 with the four counts null and the device list present.
C4_Independent ==
  req.pc = "done" =>
    /\ (req.dv.kind \in {"throw", "status"} /\ req.so.kind = "json") =>
         /\ req.res.status = 200
         /\ req.res.body.devices = << >>
         /\ \A k \in Counts \cap DOMAIN req.so.j.o : req.res.body[k] = req.so.j.o[k]
    /\ (req.so.kind \in {"throw", "status"} /\ fetchDevices(req.dv).ok
          /\ req.dv.kind = "json") =>
         /\ req.res.status = 200
         /\ \A k \in Counts : req.res.body[k] = Null
         /\ Len(req.res.body.devices) = Len(Upstream)

\* C9: in a /data response every device outside the first 10 with an
\* IPv4-shaped ip has country = "" and city = "".
C9_NoEnrichment ==
  (req.pc = "done" /\ req.res.status = 200) =>
    \A i \in 1..Len(Upstream) :
      i \notin FirstTen(Upstream) =>
        /\ req.res.body.devices[i].country = Empty
        /\ req.res.body.devices[i].city = Empty

\* ------------------------------------------------------------------------
\* The proxy variants: server-dashboard.js, part_000, part_002 (GET /stats),
\* and the start of part_001
\* ------------------------------------------------------------------------
Variants == {"server-dashboard", "part_000", "part_001", "part_002"}

\* part_002: process.env.API_BASE || "https://seashell-app-naq42.ondigitalocean.app"
DefaultBase == <<"h", "t", "t", "p", "s", ":", "/", "/", "d">>

\* .replace(/\/$/, "")
StripSlash(s) ==
  IF s # << >> /\ s[Len(s)] = "/" THEN SubSeq(s, 1, Len(s) - 1) ELSE s

\* part_001: .replace(/\/+$/, "")
RECURSIVE StripSlashes(_)
StripSlashes(s) ==
  IF s # << >> /\ s[Len(s)] = "/" THEN StripSlashes(SubSeq(s, 1, Len(s) - 1)) ELSE s

\* part_001: .trim(), for the space
RECURSIVE Trim(_)
Trim(s) ==
  IF s # << >> /\ s[1] = " " THEN Trim(Tail(s))
  ELSE IF s # << >> /\ s[Len(s)] = " " THEN Trim(SubSeq(s, 1, Len(s) - 1))
  ELSE s

\* the constant API_BASE of variant v
ApiBase(v) ==
  CASE v = "part_001" -> StripSlashes(apiEnv)
    [] v = "part_002" -> IF apiEnv = << >> THEN DefaultBase ELSE apiEnv
    [] OTHER -> apiEnv

\* the constant STATS_TOKEN of variant v (empty for undefined)
StatsToken(v) == IF v = "part_001" THEN Trim(tokenEnv) ELSE tokenEnv

\* part_000 line 114: /\\/$/ is the regular expression /\\/ with the flag $,
\* a SyntaxError when the file is loaded: the server never starts.
\* part_001 lines 21-25: process.exit(1) when API_BASE or STATS_TOKEN is empty.
Serves(v) ==
  CASE v = "part_000" -> FALSE
    [] v = "part_001" -> ApiBase(v) # << >> /\ StatsToken(v) # << >>
    [] OTHER -> TRUE

\* encodeURIComponent of one character: letters and digits are kept
EncChar(c) ==
  CASE c = " " -> <<"%", "2", "0">>
    [] c = "/" -> <<"%", "2", "F">>
    [] c = ":" -> <<"%", "3", "A">>
    [] OTHER -> <<c>>

RECURSIVE encodeURIComponent(_)
encodeURIComponent(s) ==
  IF s = << >> THEN << >> ELSE EncChar(Head(s)) \o encodeURIComponent(Tail(s))

\* the URL of the upstream call of variant v; literal text is one element
StatsUrl(v) ==
  IF v = "part_002" THEN ApiBase(v) \o <<"/api/stats-public">>
  ELSE StripSlash(ApiBase(v)) \o <<"/stats?token=">> \o encodeURIComponent(StatsToken(v))

\* new URL(url) succeeds: the url is absolute
ParseOk(url) ==
  \/ Len(url) > 7 /\ SubSeq(url, 1, 7) = <<"h", "t", "t", "p", ":", "/", "/">>
  \/ Len(url) > 8 /\ SubSeq(url, 1, 8) = <<"h", "t", "t", "p", "s", ":", "/", "/">>

\* needle occurs in hay
Contains(hay, needle) ==
  \E i \in 0..(Len(hay) - Len(needle)) : SubSeq(hay, i + 1, i + Len(needle)) = needle

\* a response: status, the error code of a JSON error body, the text of the
\* body that is neither a literal of the source nor the upstream's body, and
\* the upstream body that is passed on
Response(status, error, text, json) ==
  [status |-> status, error |-> error, text |-> text, json |-> json]

NotJson == [t |-> "notjson"]

\* String(e) of the error of a fetch whose URL does not parse: the global
\* fetch of Node names the input; node-fetch (part_002) does not
ParseErrors(v, url) ==
  IF v = "part_002"
  THEN {<<"TypeError: Invalid URL">>, <<"TypeError: Only absolute URLs are supported">>}
  ELSE {<<"TypeError: Failed to parse URL from ">> \o url}

\* String(e) of a fetch rejected by the network
NetworkError(v, url) ==
  IF v = "part_002" THEN <<"FetchError: request to ">> \o url \o <<" failed">>
  ELSE <<"TypeError: fetch failed">>

\* the answers of the upstream to the counts request
UpstreamAnswers ==
  {[kind |-> "throw"]}
  \cup {[kind |-> "resp", status |-> st, j |-> j] :
          st \in {200, 401, 500},
          j \in {StatsFull, Obj([error |-> Str(<<"n", "o">>)]), NotJson}}

Paths == {"/", "/healthz", "/stats", "/other"}

\* the part of the /stats handler that is missing in part_002: line 93 of
\* server-dashboard.js
NotConfigured(v) ==
  v = "server-dashboard" /\ (ApiBase(v) = << >> \/ StatsToken(v) = << >>)

\* a browser request for path arrives; the handler runs up to its fetch
Get(path, detail) ==
  /\ Serves(variant)
  /\ proxy.pc = "idle"
  /\ detail \in ParseErrors(variant, StatsUrl(variant))
  /\ proxy' =
       IF path = "/"
       THEN [pc |-> "done", path |-> path, outbound |-> 0,
             res |-> Response(200, "none",
                      IF variant = "part_002" THEN ApiBase(variant) ELSE << >>, Undef)]
       ELSE IF path = "/healthz" /\ variant # "part_002"
       THEN [pc |-> "done", path |-> path, outbound |-> 0,
             res |-> Response(200, "none", << >>, Undef)]
       ELSE IF path # "/stats" \/ variant = "part_001"
       THEN [pc |-> "done", path |-> path, outbound |-> 0,
             res |-> Response(404, "none", << >>, Undef)]
       ELSE IF NotConfigured(variant)
       THEN [pc |-> "done", path |-> path, outbound |-> 0,
             res |-> Response(500, "dashboard_not_configured", << >>, Undef)]
       ELSE IF ~ParseOk(StatsUrl(variant))
       THEN [pc |-> "done", path |-> path, outbound |-> 0,
             res |-> Response(500, "dashboard_fetch_failed", detail, Undef)]
       ELSE [pc |-> "fetching", path |-> path, outbound |-> 1]
  /\ UNCHANGED <<geoCache, now, calls, lastGeo, admin, req, variant, apiEnv, tokenEnv>>

\* the upstream call settles with answer a
StatsSettle(a) ==
  /\ proxy.pc = "fetching"
  /\ a \in UpstreamAnswers
  /\ proxy' = [pc |-> "done", path |-> proxy.path, outbound |-> proxy.outbound,
               ans |-> a,
               res |->
                 IF a.kind = "throw"
                 THEN Response(500, "dashboard_fetch_failed",
                               NetworkError(variant, StatsUrl(variant)), Undef)
                 ELSE IF a.j = NotJson
                 THEN Response(500, "dashboard_fetch_failed",
                               <<"SyntaxError: Unexpected token">>, Undef)
                 ELSE Response(a.status, "none", << >>, a.j)]
  /\ UNCHANGED <<geoCache, now, calls, lastGeo, admin, req, variant, apiEnv, tokenEnv>>

\* the browser has the response
ProxyDone ==
  /\ proxy.pc = "done"
  /\ proxy' = Idle
  /\ UNCHANGED <<geoCache, now, calls, lastGeo, admin, req, variant, apiEnv, tokenEnv>>

InitStats ==
  /\ geoCache = << >>
  /\ now = 0
  /\ calls = [c \in Callers |-> Idle]
  /\ lastGeo = << >>
  /\ admin = TRUE
  /\ req = Idle
  /\ variant \in Variants
  /\ apiEnv \in {<< >>, UrlOk, UrlSlash, UrlNoScheme}
  /\ tokenEnv \in {<< >>, TokenPlain, TokenSpace}
  /\ proxy = Idle

NextStats ==
  \/ \E path \in Paths :
       \E detail \in ParseErrors(variant, StatsUrl(variant)) : Get(path, detail)
  \/ \E a \in UpstreamAnswers : StatsSettle(a)
  \/ ProxyDone

SpecStats == InitStats /\ [][NextStats]_vars

\* C2: the value of STATS_TOKEN never appears in a response sent to the
\* browser, on any path and on any outcome.
C2_NoToken ==
  proxy.pc = "done" =>
    ~(StatsToken(variant) # << >> /\ Contains(proxy.res.text, StatsToken(variant)))

\* C10: in every variant that serves requests while API_BASE or STATS_TOKEN
\* is missing, every GET /stats is answered with status 500 and
\* {error: "dashboard_not_configured"} and issues no call to the upstream.
C10_NotConfigured ==
  (proxy.pc \in {"fetching", "done"} /\ proxy.path = "/stats"
     /\ (ApiBase(variant) = << >> \/ StatsToken(variant) = << >>)) =>
    /\ proxy.pc = "done"
    /\ proxy.res.status = 500
    /\ proxy.res.error = "dashboard_not_configured"
    /\ proxy.outbound = 0

\* C11: whenever the upstream answers the counts request, the GET /stats
\* response of a proxy variant carries the upstream's status code, whatever
\* the upstream's body is, and 500 with error "dashboard_fetch_failed" is
\* returned only when the request to the upstream could not complete.
C11_StatusMirrors ==
  (proxy.pc = "done" /\ proxy.path = "/stats"
     /\ variant \in {"server-dashboard", "part_000", "part_002"}) =>
    /\ ("ans" \in DOMAIN proxy /\ proxy.ans.kind = "resp")
         => proxy.res.status = proxy.ans.status
    /\ proxy.res.error = "dashboard_fetch_failed"
         => ("ans" \notin DOMAIN proxy \/ proxy.ans.kind = "throw")

\* the normalized results of the successful lookups, written out
NormRome == [city |-> Str(Rome), country |-> Str(Italy),
             latitude |-> Num(41), longitude |-> Num(12)]
NormOslo == [city |-> Str(Oslo), country |-> Str(<<"N", "O">>),
             latitude |-> Num(59), longitude |-> Num(0)]
NormError == [city |-> Empty, country |-> Empty, latitude |-> Null, longitude |-> Null]
NormLima == [city |-> Str(Lima), country |-> Str(Peru), latitude |-> NaN, longitude |-> Null]

\* the results that belong to ip
ResultsOf(ip) ==
  IF ip = IpA THEN {NormRome, NormOslo, NormError}
  ELSE IF ip = IpB THEN {NormLima} ELSE {}

\* the city, country, latitude and longitude of a cache entry
EntryGeo(e) ==
  [city |-> e.city, country |-> e.country, latitude |-> e.latitude, longitude |-> e.longitude]

\* every entry is the complete result of a successful lookup for its own ip,
\* stamped with a time that has passed, and is the one written last
CacheSound ==
  \A ip \in DOMAIN geoCache :
    /\ DOMAIN geoCache[ip] = {"city", "country", "latitude", "longitude", "ts"}
    /\ EntryGeo(geoCache[ip]) \in ResultsOf(ip)
    /\ geoCache[ip].ts \in 0..now
    /\ Obj(EntryGeo(geoCache[ip])) = lastGeo[ip]

\* every call returns null or a result that belongs to its own ip
ReturnsSound ==
  \A c \in Callers :
    calls[c].pc = "done" =>
      \/ calls[c].val = Null
      \/ (calls[c].val.t = "object" /\ calls[c].val.o \in ResultsOf(calls[c].ip))

\* a lookup that settles with a result stores exactly that result under its
\* ip, whatever was there, and touches no other entry
LastWriteWins ==
  \A c \in Callers :
    (Settles(c) /\ calls'[c].val # Null) =>
      /\ DOMAIN geoCache' = DOMAIN geoCache \cup {calls[c].ip}
      /\ Obj(EntryGeo(geoCache'[calls[c].ip])) = calls'[c].val
      /\ geoCache'[calls[c].ip].ts = now
      /\ \A k \in DOMAIN geoCache \ {calls[c].ip} : geoCache'[k] = geoCache[k]

\* C12: under every interleaving of concurrent lookupGeo calls, several
\* misses for the same ip included, every cache entry is the complete
\* normalized result of one successful lookup for that same ip, the last
\* completed write wins, and no call returns a result of a different ip.
C12_CacheNeverCorrupted ==
  [](CacheSound /\ ReturnsSound) /\ [][LastWriteWins]_vars

\* two calls for the same ip both missed and both fetched; they stored
\* different results and the cache holds one of them, next to an entry of
\* the other ip
C12_Witness ==
  /\ calls[1].pc = "done" /\ calls[2].pc = "done"
  /\ calls[1].ip = IpA /\ calls[2].ip = IpA
  /\ calls[1].ext = 1 /\ calls[2].ext = 1
  /\ calls[1].val = Obj(NormRome) /\ calls[2].val = Obj(NormOslo)
  /\ IpA \in DOMAIN geoCache /\ EntryGeo(geoCache[IpA]) = NormOslo
  /\ IpB \in DOMAIN geoCache

====
